---- MODULE Spec2Model ----
(***************************************************************************)
(* The audio session client of the live-chat page (class AudioClient,      *)
(* src/README.md lines 241-424) as a state machine.  One AudioClient       *)
(* object; its caller (the presentation layer) invokes connect,            *)
(* startRecording, stopRecording and close; the browser delivers socket    *)
(* events, microphone grants/denials, captured audio blocks and            *)
(* playback-ended events.  Every handler runs to completion (one JavaScript*)
(* task), so every handler is one action.                                  *)
(*                                                                         *)
(* The live-chat page (function LiveChat, lines 426-580) is the caller     *)
(* that assigns the callbacks: its effect constructs the client, assigns   *)
(* the callbacks and calls connect (Mount).  The callbacks queue React     *)
(* state updates, which React applies when it renders the component        *)
(* (Render).  Until Mount the callbacks are the constructor's no-ops.      *)
(*                                                                         *)
(* The base64 framing of audio blocks (lines 411-423) is modelled by what  *)
(* it computes, on one block at a time (variable codec).                   *)
(*                                                                         *)
(* The useWebSocket hook (src/src/app/hooks/useWebSocket.ts) is a separate *)
(* component with its own sockets (variable hook), and the text-search     *)
(* page (src/unnamed/part_004) one with its own event streams (variable    *)
(* search).                                                                *)
(***************************************************************************)
EXTENDS Integers, Sequences, FiniteSets, TLC

\* ---------------------------------------------------------------- bounds
MaxConnects == 1      \* connect() calls made by the caller
MaxMicRequests == 2   \* getUserMedia requests issued
MaxAudio == 3         \* inbound `audio` messages received
MaxBytes == 2         \* decoded byte length of an inbound audio payload
MaxBlocks == 5        \* audio blocks delivered to onaudioprocess callbacks
MaxEvents == 4        \* frames delivered to the callbacks of the live-chat page

VARIABLES
  ws,            \* this.ws: 0 is null, else the index in socks of the socket
  socks,         \* every WebSocket created so far, by its connection state
  promises,      \* the promise of each connect() call: "pending" | "resolved"
  isConnected,   \* this.isConnected
  isRecording,   \* this.isRecording
  audioContext,  \* this.audioContext: FALSE is null, TRUE once created
  recorder,      \* this.recorder: 0 is null, else the index in graphs
  graphs,        \* every capture graph built so far: [live, connected]
  micPending,    \* initializeAudio calls suspended at `await getUserMedia`
  micRequests,   \* number of getUserMedia requests issued so far
  audioQueue,    \* this.audioQueue: sequence of [id, len]
  isPlaying,     \* this.isPlaying
  inflight,      \* ids of buffer sources started and not yet ended
  started,       \* history: ids of the buffers in the order they started
  nAudio,        \* history: number of `audio` messages received
  nBlocks,       \* history: number of blocks handed to onaudioprocess
  sent,          \* history: outbound messages, [sock, block], in send order
  last,          \* history: the handler that ran last and what it invoked
  scn,           \* history: progress of the run along the reference scenario
  closedLast,    \* history: "never" | "closed" | "reused" (see Close)
  mounted,       \* LiveChat's effect has run: the callbacks are LiveChat's
  isBotSpeaking, \* LiveChat: isBotSpeaking.current
  messages,      \* LiveChat: the `messages` state, as rendered
  products,      \* LiveChat: the `products` state, as rendered
  pending,       \* LiveChat: state updates queued and not yet rendered
  heard,         \* history: the frames handed to LiveChat's callbacks
  codec,         \* one block on its way through the base64 framing
  hook,          \* the useWebSocket hook of one component
  search         \* the text-search page

vars == <<ws, socks, promises, isConnected, isRecording, audioContext, recorder, graphs,
          micPending, micRequests, audioQueue, isPlaying, inflight, started,
          nAudio, nBlocks, sent, last, scn, closedLast,
          mounted, isBotSpeaking, messages, products, pending, heard,
          codec, hook, search>>

\* The variables of the AudioClient and of the live-chat page.
clientVars == <<ws, socks, promises, isConnected, isRecording, audioContext,
                recorder, graphs, micPending, micRequests, audioQueue,
                isPlaying, inflight, started, nAudio, nBlocks, sent, last,
                scn, closedLast, mounted, isBotSpeaking, messages, products,
                pending, heard>>

\* The variables of the other components.
otherVars == <<codec, hook, search>>

exceptCodec == <<clientVars, hook, search>>

exceptHook == <<clientVars, codec, search>>

exceptSearch == <<clientVars, codec, hook>>

\* ------------------------------------------------------ inbound messages
\* The eight kinds ws.onmessage switches on.
KnownKinds == {"audio", "text", "user_text", "products", "log",
               "turn_complete", "bot_speech_start", "bot_speech_end"}

\* A frame that JSON.parse rejects, and a frame whose `type` is none of the
\* eight.
MalformedKinds == {"unparseable", "unknown"}

\* An audio payload: whether atob accepts it, and how many bytes it decodes to.
AudioPayloads == [b64ok : BOOLEAN, len : 0..MaxBytes]

NoPayload == [b64ok |-> TRUE, len |-> 0]

\* A frame: its `type`, and its `data` read as an audio payload, as a text
\* and as a product list.
Messages ==
  [kind : {"audio"}, data : AudioPayloads, text : {""}, list : {<<>>}]
    \cup [kind : (KnownKinds \ {"audio"}) \cup MalformedKinds,
          data : {NoPayload}, text : {""}, list : {<<>>}]

\* The transcript fragments and product lists the server sends to the page.
Texts == {"Hello ", "world"}

ProductLists == {<<"A">>, <<"B", "C">>}

\* The frames LiveChat's callbacks act on.
ChatMessages ==
  [kind : {"text", "user_text"}, data : {NoPayload}, text : Texts, list : {<<>>}]
    \cup [kind : {"products"}, data : {NoPayload}, text : {""}, list : ProductLists]
    \cup [kind : {"bot_speech_start", "bot_speech_end"},
          data : {NoPayload}, text : {""}, list : {<<>>}]


\* Mutant of Callbacks: the `break` of case 'text' is missing, so a text
\* frame falls through into case 'user_text'.
CallbacksFallThrough(kind) ==
  CASE kind = "audio"            -> <<"onAudioReceived">>
    [] kind = "text"             -> <<"onTextReceived:bot", "onTextReceived:user">>
    [] kind = "user_text"        -> <<"onTextReceived:user">>
    [] kind = "products"         -> <<"onProductsReceived">>
    [] kind = "log"              -> <<"onLogReceived">>
    [] kind = "turn_complete"    -> <<"onTurnComplete">>
    [] kind = "bot_speech_start" -> <<"onBotSpeechStart">>
    [] kind = "bot_speech_end"   -> <<"onBotSpeechEnd">>
    [] OTHER                     -> <<>>

\* Mutant of Callbacks: case 'products' is missing from the switch.
CallbacksWithoutProducts(kind) ==
  CASE kind = "audio"            -> <<"onAudioReceived">>
    [] kind = "text"             -> <<"onTextReceived:bot">>
    [] kind = "user_text"        -> <<"onTextReceived:user">>
    [] kind = "log"              -> <<"onLogReceived">>
    [] kind = "turn_complete"    -> <<"onTurnComplete">>
    [] kind = "bot_speech_start" -> <<"onBotSpeechStart">>
    [] kind = "bot_speech_end"   -> <<"onBotSpeechEnd">>
    [] OTHER                     -> <<>>

\* The callbacks ws.onmessage invokes for a frame of the given kind, in
\* order.  JSON.parse throws on an unparseable frame before the switch is
\* reached; the switch has no default, so an unknown type invokes nothing.
Callbacks(kind) ==
  CASE kind = "audio"            -> <<"onAudioReceived">>
    [] kind = "text"             -> <<"onTextReceived:bot">>
    [] kind = "user_text"        -> <<"onTextReceived:user">>
    [] kind = "products"         -> <<"onProductsReceived">>
    [] kind = "log"              -> <<"onLogReceived">>
    [] kind = "turn_complete"    -> <<"onTurnComplete">>
    [] kind = "bot_speech_start" -> <<"onBotSpeechStart">>
    [] kind = "bot_speech_end"   -> <<"onBotSpeechEnd">>
    [] OTHER                     -> <<>>

\* JSON.parse(event.data) throws a SyntaxError on an unparseable frame.
ParseThrows(kind) == kind = "unparseable"

\* ---------------------------------------------------------------- playback
\* new Int16Array(audioData) throws a RangeError when the byte length is odd;
\* createBuffer(1, 0, 24000) throws a NotSupportedError for a zero length.
DecodeThrows(len) == len % 2 # 0 \/ len \div 2 = 0

\* Mutant of ShiftIndex: the buffer is taken from the tail (pop for shift).
ShiftIndexPop(q) == Len(q)

\* audioQueue.shift(): the position of the buffer playNextInQueue takes.
ShiftIndex(q) == 1

RemoveAt(q, i) == SubSeq(q, 1, i - 1) \o SubSeq(q, i + 1, Len(q))

\* playNextInQueue(), as the values it leaves: isPlaying, audioQueue, the id
\* of the source it started (0 when none) and whether it threw.  The
\* `if (!audioData)` branch is unreachable: the queue is non-empty there and
\* an ArrayBuffer is always truthy.
playNextInQueue(q, ctx) ==
  IF Len(q) = 0 \/ ~ctx
    THEN [isPlaying |-> FALSE, audioQueue |-> q, start |-> 0, threw |-> FALSE]
    ELSE LET audioData == q[ShiftIndex(q)]
             rest == RemoveAt(q, ShiftIndex(q))
         IN  IF DecodeThrows(audioData.len)
               THEN [isPlaying |-> TRUE, audioQueue |-> rest, start |-> 0,
                     threw |-> TRUE]
               ELSE [isPlaying |-> TRUE, audioQueue |-> rest,
                     start |-> audioData.id, threw |-> FALSE]

\* Mutant of PlayAudioStartsNext: the isPlaying gate is missing.
PlayAudioStartsAlways(playing) == TRUE

\* The guard of playAudio: `if (!this.isPlaying) this.playNextInQueue()`.
PlayAudioStartsNext(playing) == ~playing

\* playAudio(base64Audio) for the buffer `id`: atob throws on invalid base64
\* before anything is pushed.
playAudio(id, data, q, playing, ctx) ==
  IF ~data.b64ok
    THEN [isPlaying |-> playing, audioQueue |-> q, start |-> 0, threw |-> TRUE]
    ELSE LET pushed == Append(q, [id |-> id, len |-> data.len])
         IN  IF PlayAudioStartsNext(playing)
               THEN playNextInQueue(pushed, ctx)
               ELSE [isPlaying |-> playing, audioQueue |-> pushed, start |-> 0,
                     threw |-> FALSE]

WithStart(set, id) == IF id = 0 THEN set ELSE set \cup {id}

LogStart(seq, id) == IF id = 0 THEN seq ELSE Append(seq, id)

\* ------------------------------------------------------- scenario monitor
\* Progress of the run along: connect (awaited), startRecording (awaited),
\* n blocks, stopRecording, close, close event.  Inbound traffic and
\* playback may interleave; any other step leaves the scenario ("off").
ScnStep(s, op) ==
  CASE op \in {"message", "ended"} -> s
    [] s.ph = "init" /\ op = "connect" -> [s EXCEPT !.ph = "connecting"]
    [] s.ph = "connecting" /\ op = "open" -> [s EXCEPT !.ph = "connected"]
    [] s.ph = "connected" /\ op = "startRecording" -> [s EXCEPT !.ph = "micWait"]
    [] s.ph = "micWait" /\ op = "micGranted" -> [s EXCEPT !.ph = "recording"]
    [] s.ph = "recording" /\ op = "capture" -> [s EXCEPT !.n = @ + 1]
    [] s.ph = "recording" /\ op = "stopRecording" -> [s EXCEPT !.ph = "stopped"]
    [] s.ph = "stopped" /\ op = "capture" -> s
    [] s.ph = "stopped" /\ op = "close" -> [s EXCEPT !.ph = "closing"]
    [] s.ph = "closing" /\ op = "closeEvent" -> [s EXCEPT !.ph = "done"]
    [] OTHER -> [s EXCEPT !.ph = "off"]

\* -------------------------------------------------------------- LiveChat
\* A queued state update: which updater or value was handed to setMessages
\* or setProducts.  (The setLogs and setIsSearching calls write state that
\* nothing here reads.)
Update(set, text, isUser, list) ==
  [set |-> set, text |-> text, isUser |-> isUser, list |-> list]

\* onBotSpeechStart: sets the ref and queues the updater that appends an
\* empty bot message.
onBotSpeechStart(chat) ==
  [speaking |-> TRUE,
   pending |-> Append(chat.pending, Update("botMessage", "", FALSE, <<>>))]

\* onTextReceived: queues the updater below; it does not read the ref now.
onTextReceived(chat, text, isUser) ==
  [chat EXCEPT !.pending = Append(@, Update("text", text, isUser, <<>>))]

\* onBotSpeechEnd: clears the ref.
onBotSpeechEnd(chat) == [chat EXCEPT !.speaking = FALSE]

\* onProductsReceived: setProducts(newProducts || []); an array is truthy.
onProductsReceived(chat, newProducts) ==
  [chat EXCEPT !.pending = Append(@, Update("products", "", FALSE, newProducts))]

\* What the callback named cb does when LiveChat has assigned it; the
\* callbacks LiveChat leaves alone or that only log do nothing here.
Callback(chat, cb, m) ==
  CASE cb = "onBotSpeechStart"    -> onBotSpeechStart(chat)
    [] cb = "onTextReceived:bot"  -> onTextReceived(chat, m.text, FALSE)
    [] cb = "onTextReceived:user" -> onTextReceived(chat, m.text, TRUE)
    [] cb = "onBotSpeechEnd"      -> onBotSpeechEnd(chat)
    [] cb = "onProductsReceived"  -> onProductsReceived(chat, m.list)
    [] OTHER                      -> chat

ChatCallbacks == {"onBotSpeechStart", "onTextReceived:bot",
                  "onTextReceived:user", "onBotSpeechEnd",
                  "onProductsReceived"}

RECURSIVE Invoke(_, _, _)
Invoke(chat, cbs, m) ==
  IF cbs = <<>> THEN chat
  ELSE Invoke(Callback(chat, Head(cbs), m), Tail(cbs), m)

\* The effect on the page of a handler that invoked the callbacks cbs for
\* the frame m.
Deliver(cbs, m) ==
  IF mounted /\ \E k \in DOMAIN cbs : cbs[k] \in ChatCallbacks
    THEN /\ Len(heard) < MaxEvents
         /\ LET chat == Invoke([speaking |-> isBotSpeaking,
                                pending |-> pending], cbs, m)
            IN /\ isBotSpeaking' = chat.speaking
               /\ pending' = chat.pending
         /\ heard' = Append(heard, m)
    ELSE UNCHANGED <<isBotSpeaking, pending, heard>>

\* prev => [...prev, { text: "", sender: 'bot' }]
BotMessageUpdater(prev) == Append(prev, [text |-> "", sender |-> "bot"])

\* Mutant of TextUpdater: an accumulated bubble keeps the newest fragment
\* only.
TextUpdaterOverwrites(prev, text, isUser, speaking) ==
  LET n == Len(prev) IN
  IF isUser
    THEN IF n > 0 /\ prev[n].sender = "user"
           THEN [prev EXCEPT ![n].text = text]
           ELSE Append(prev, [text |-> text, sender |-> "user"])
    ELSE IF speaking /\ n > 0 /\ prev[n].sender = "bot"
           THEN [prev EXCEPT ![n].text = text]
           ELSE Append(prev, [text |-> text, sender |-> "bot"])

\* The updater of onTextReceived, run on the list prev while the ref holds
\* `speaking`.
TextUpdater(prev, text, isUser, speaking) ==
  LET n == Len(prev) IN
  IF isUser
    THEN IF n > 0 /\ prev[n].sender = "user"
           THEN [prev EXCEPT ![n].text = @ \o text]
           ELSE Append(prev, [text |-> text, sender |-> "user"])
    ELSE IF speaking /\ n > 0 /\ prev[n].sender = "bot"
           THEN [prev EXCEPT ![n].text = @ \o text]
           ELSE Append(prev, [text |-> text, sender |-> "bot"])

\* Mutant of SetProducts: the new list is appended to the displayed one.
SetProductsMerges(prev, newProducts) == prev \o newProducts

\* setProducts(value): the value replaces the state.
SetProducts(prev, newProducts) == newProducts

Apply(view, u, speaking) ==
  CASE u.set = "botMessage" ->
         [view EXCEPT !.messages = BotMessageUpdater(@)]
    [] u.set = "text" ->
         [view EXCEPT !.messages = TextUpdater(@, u.text, u.isUser, speaking)]
    [] u.set = "products" ->
         [view EXCEPT !.products = SetProducts(@, u.list)]

\* React runs the queued updates in the order they were queued.
RECURSIVE Reduce(_, _, _)
Reduce(view, queue, speaking) ==
  IF queue = <<>> THEN view
  ELSE Reduce(Apply(view, Head(queue), speaking), Tail(queue), speaking)

\* ------------------------------------------------------------------ codec
\* The transport encoding of a captured block (lines 343-349, 411-416) and
\* its decoding for playback (lines 418-423, 384).  A block is a sequence of
\* int16 samples; a buffer is a sequence of bytes 0..255; a base64 string is
\* a sequence of digits 0..63, where Pad stands for the character '='.
MaxSamples == 3       \* int16 samples in a block handed to the codec

SampleValues == {-32768, -1, 0, 4660, 32767}

Blocks == UNION {[1..n -> SampleValues] : n \in 0..MaxSamples}

Pad == 64

\* new Uint8Array(int16Data.buffer): the two bytes of each sample, low byte
\* first, negative samples in two's complement.
RECURSIVE Uint8View(_)
Uint8View(samples) ==
  IF samples = <<>> THEN <<>>
  ELSE LET u == IF Head(samples) < 0 THEN Head(samples) + 65536
                                     ELSE Head(samples)
       IN <<u % 256, u \div 256>> \o Uint8View(Tail(samples))

\* new Int16Array(audioData) over an even number of bytes.
RECURSIVE Int16View(_)
Int16View(bytes) ==
  IF Len(bytes) < 2 THEN <<>>
  ELSE LET u == bytes[1] + 256 * bytes[2]
       IN <<IF u >= 32768 THEN u - 65536 ELSE u>>
            \o Int16View(SubSeq(bytes, 3, Len(bytes)))

\* Mutant of fromCharCode: the code unit keeps seven bits only.
fromCharCodeAscii(byte) == byte % 128

\* String.fromCharCode(bytes[i]): the code unit of the character is the byte.
fromCharCode(byte) == byte

\* btoa(binary): three characters give four digits; a last group of one or
\* two characters is padded.
RECURSIVE btoa(_)
btoa(bin) ==
  IF Len(bin) = 0 THEN <<>>
  ELSE IF Len(bin) = 1
    THEN <<bin[1] \div 4, (bin[1] % 4) * 16, Pad, Pad>>
  ELSE IF Len(bin) = 2
    THEN <<bin[1] \div 4, (bin[1] % 4) * 16 + bin[2] \div 16,
           (bin[2] % 16) * 4, Pad>>
  ELSE <<bin[1] \div 4, (bin[1] % 4) * 16 + bin[2] \div 16,
         (bin[2] % 16) * 4 + bin[3] \div 64, bin[3] % 64>>
         \o btoa(SubSeq(bin, 4, Len(bin)))

\* _arrayBufferToBase64(buffer)
arrayBufferToBase64(buffer) ==
  btoa([i \in 1..Len(buffer) |-> fromCharCode(buffer[i])])

\* atob removes up to two trailing '=' when the length is a multiple of four.
StripPadding(b64) ==
  LET n == Len(b64) IN
  IF n % 4 = 0 /\ n >= 2 /\ b64[n] = Pad /\ b64[n - 1] = Pad
    THEN SubSeq(b64, 1, n - 2)
  ELSE IF n % 4 = 0 /\ n >= 1 /\ b64[n] = Pad THEN SubSeq(b64, 1, n - 1)
  ELSE b64

\* The characters four digits (or a last group of two or three) decode to.
RECURSIVE DecodeDigits(_)
DecodeDigits(d) ==
  IF Len(d) < 2 THEN <<>>
  ELSE IF Len(d) = 2 THEN <<d[1] * 4 + d[2] \div 16>>
  ELSE IF Len(d) = 3
    THEN <<d[1] * 4 + d[2] \div 16, (d[2] % 16) * 16 + d[3] \div 4>>
  ELSE <<d[1] * 4 + d[2] \div 16, (d[2] % 16) * 16 + d[3] \div 4,
         (d[3] % 4) * 64 + d[4]>>
         \o DecodeDigits(SubSeq(d, 5, Len(d)))

\* atob throws an InvalidCharacterError when a '=' is left after the
\* padding is removed or one digit is left over.
AtobThrows(b64) ==
  LET d == StripPadding(b64) IN
  \/ Len(d) % 4 = 1
  \/ \E i \in DOMAIN d : d[i] = Pad

atob(b64) == DecodeDigits(StripPadding(b64))

\* _base64ToArrayBuffer(base64): bytes[i] = binaryString.charCodeAt(i); a
\* Uint8Array keeps the low eight bits.
base64ToArrayBuffer(base64) ==
  LET binaryString == atob(base64)
  IN [i \in 1..Len(binaryString) |-> binaryString[i] % 256]

CodecIdle == [ph |-> "idle", block |-> <<>>, wire |-> <<>>, out |-> <<>>,
              threw |-> FALSE]

\* ------------------------------------------------------------ useWebSocket
\* The hook of src/src/app/hooks/useWebSocket.ts in one component.  The
\* variable hook holds its state (isConnected, messages, logs), its ref
\* (webSocketRef: 0 is null, else the index in sockets), the url of the last
\* effect run, the socket captured by the cleanup the effect returned
\* (cleanup: 0 when none was returned), every socket created so far, and what
\* sendMessage transmitted.  A setter called while the component is mounted
\* is applied in call order; React drops it once the component is unmounted.
MaxHookSockets == 2   \* sockets the hook's effect creates
MaxHookMessages == 1  \* frames the hook's sockets receive
MaxHookSends == 2     \* sendMessage calls

Urls == {"ws://a", "ws://b"}

HookFrames == {"blob", "log", "json"}

HookInit ==
  [phase |-> "initial", url |-> "", webSocketRef |-> 0, cleanup |-> 0,
   isConnected |-> FALSE, messages |-> <<>>, logs |-> <<>>,
   sockets |-> <<>>, sent |-> <<>>, nSends |-> 0, nFrames |-> 0,
   changedWhileOpen |-> FALSE]

Live(h) == h.phase = "mounted"

\* setIsConnected(value)
setIsConnected(h, value) ==
  IF Live(h) THEN [h EXCEPT !.isConnected = value] ELSE h

\* setLogs(prev => [...prev, line])
setLogs(h, line) ==
  IF Live(h) THEN [h EXCEPT !.logs = Append(@, line)] ELSE h

\* setMessages(prev => [...prev, item])
setMessages(h, item) ==
  IF Live(h) THEN [h EXCEPT !.messages = Append(@, item)] ELSE h

\* The body of the effect for the url u (lines 19-56): nothing, and no
\* cleanup, when the ref holds a socket; else a new socket, stored in the
\* ref and captured by the cleanup.
RunEffect(h, u) ==
  IF h.webSocketRef # 0
    THEN [h EXCEPT !.url = u, !.cleanup = 0]
    ELSE [h EXCEPT !.url = u,
                   !.sockets = Append(@, [url |-> u, state |-> "connecting"]),
                   !.webSocketRef = Len(h.sockets) + 1,
                   !.cleanup = Len(h.sockets) + 1]

\* `if (ws.readyState === WebSocket.OPEN) ws.close()`
CleanupCloses(state) == state = "open"

\* What ws.close() makes of a socket: OPEN becomes CLOSING; a CONNECTING
\* socket is failed (it will fire error and close, never open).
AfterClose(state) ==
  CASE state = "open" -> "closing"
    [] state = "connecting" -> "aborting"
    [] OTHER -> state

\* The cleanup the effect returned (lines 58-66).
RunCleanup(h) ==
  IF h.cleanup = 0 THEN h
  ELSE [h EXCEPT !.sockets[h.cleanup].state =
                     IF CleanupCloses(@) THEN AfterClose(@) ELSE @,
                 !.webSocketRef = 0,
                 !.cleanup = 0]

\* ws.onclose: `webSocketRef.current = null`, whichever socket the ref holds.
OnCloseClearsRef(ref, i) == 0

\* ws.onclose of socket i (lines 51-56).
onclose(h, i) ==
  [setLogs(setIsConnected(h, FALSE), "WebSocket connection closed")
     EXCEPT !.webSocketRef = OnCloseClearsRef(h.webSocketRef, i)]

\* -------------------------------------------------------------- SearchPage
\* The text-search page (src/unnamed/part_004; src/src/app/search/page.tsx
\* is the same handler with the `log` and `result` events only).  The
\* variable search holds the page's state (messages, products, isSearching)
\* and every EventSource created so far: the query it was opened for,
\* whether it is still open, how many events it delivered and whether one
\* of them carried products.  Each handler's state updates are rendered
\* before the next handler runs.
MaxQueries == 2       \* queries submitted on the search page
MaxStreamEvents == 2  \* events one EventSource delivers

Queries == {"shoes", "hats"}

SearchEvents == {"log", "products", "final_text", "result", "other"}

\* The product list the server finds for a query.
ProductsFor(query) == <<query>>

SearchInit ==
  [messages |-> <<>>, products |-> <<>>, isSearching |-> FALSE,
   streams |-> <<>>]

\* eventSource.onmessage of stream i for an event of the given type
\* (part_004 lines 43-75).
SearchOnMessage(s, i, type) ==
  LET found == ProductsFor(s.streams[i].query) IN
  CASE type = "products" ->
         [s EXCEPT !.products = found, !.isSearching = FALSE]
    [] type = "final_text" ->
         [s EXCEPT !.messages = Append(@, "bot"), !.isSearching = FALSE]
    [] type = "result" ->
         [s EXCEPT !.messages = Append(@, "bot"), !.products = found,
                   !.isSearching = FALSE]
    [] OTHER -> s

CarriesProducts(type) == type \in {"products", "result"}

\* The history variables: `last` names the handler that just ran, the frame
\* it was given (NoMessage when it is not ws.onmessage), whether it raised
\* (or, for an async call, rejected) and the callbacks it invoked, in order.
NoMessage == [kind |-> "", data |-> NoPayload, text |-> "", list |-> <<>>]

Note(op, msg, threw, cbs) ==
  /\ last' = [op |-> op, msg |-> msg, threw |-> threw, cbs |-> cbs]
  /\ scn' = ScnStep(scn, op)
  /\ Deliver(cbs, msg)
  /\ UNCHANGED <<mounted, messages, products>>
  /\ UNCHANGED otherVars

\* ------------------------------------------------------------------- Init
\* The state the constructor leaves (lines 260-282), on a page that has
\* not rendered yet.
Constructed ==
  /\ ws = 0
  /\ socks = <<>>
  /\ promises = <<>>
  /\ isConnected = FALSE
  /\ isRecording = FALSE
  /\ audioContext = FALSE
  /\ recorder = 0
  /\ graphs = <<>>
  /\ micPending = 0
  /\ micRequests = 0
  /\ audioQueue = <<>>
  /\ isPlaying = FALSE
  /\ inflight = {}
  /\ started = <<>>
  /\ nAudio = 0
  /\ nBlocks = 0
  /\ sent = <<>>
  /\ last = [op |-> "new", msg |-> NoMessage, threw |-> FALSE, cbs |-> <<>>]
  /\ scn = [ph |-> "init", n |-> 0]
  /\ closedLast = "never"
  /\ mounted = FALSE
  /\ isBotSpeaking = FALSE
  /\ messages = <<>>
  /\ products = <<>>
  /\ pending = <<>>
  /\ heard = <<>>

Init ==
  /\ Constructed
  /\ codec = CodecIdle
  /\ hook = HookInit
  /\ search = SearchInit

audioVars == <<audioContext, recorder, graphs, micPending, micRequests,
               isRecording>>
playVars == <<audioQueue, isPlaying, inflight, started, nAudio>>
sockVars == <<ws, socks, promises, isConnected>>

\* ---------------------------------------------------------------- connect
\* connect(): creates a socket, stores it in this.ws and installs the four
\* handlers; the promise is left pending.
OpenSocket ==
  /\ Len(socks) < MaxConnects
  /\ socks' = Append(socks, "connecting")
  /\ promises' = Append(promises, "pending")
  /\ ws' = Len(socks) + 1
  /\ closedLast' = IF closedLast = "never" THEN "never" ELSE "reused"
  /\ UNCHANGED <<isConnected, audioVars, playVars, nBlocks, sent>>

\* connect() called on a client whose callbacks stay as they are.
Connect ==
  /\ OpenSocket
  /\ Note("connect", NoMessage, FALSE, <<>>)

\* LiveChat's effect: constructs the client, assigns the callbacks and calls
\* connect().
Mount ==
  /\ ~mounted
  /\ socks = <<>>
  /\ OpenSocket
  /\ mounted' = TRUE
  /\ last' = [op |-> "connect", msg |-> NoMessage, threw |-> FALSE, cbs |-> <<>>]
  /\ scn' = ScnStep(scn, "connect")
  /\ UNCHANGED <<isBotSpeaking, messages, products, pending, heard>>
  /\ UNCHANGED otherVars

\* React renders LiveChat: every queued update is applied, the updaters
\* reading the ref as it is now.  (An updater React runs as early as the
\* call that queued it is the schedule that renders right after that call.)
Render ==
  /\ mounted
  /\ pending # <<>>
  /\ LET view == Reduce([messages |-> messages, products |-> products],
                        pending, isBotSpeaking)
     IN /\ messages' = view.messages
        /\ products' = view.products
  /\ pending' = <<>>
  /\ last' = [op |-> "render", msg |-> NoMessage, threw |-> FALSE, cbs |-> <<>>]
  /\ UNCHANGED <<sockVars, audioVars, playVars, nBlocks, sent, scn, closedLast,
                 mounted, isBotSpeaking, heard>>
  /\ UNCHANGED otherVars

\* Mutant of OnOpenCalls: the promise is resolved before onReady is called.
OnOpenResolvesFirst == <<"resolve", "onReady">>

\* What ws.onopen calls after setting isConnected, in order: the onReady
\* callback, then the resolve function of connect()'s promise.
OnOpenCalls == <<"onReady", "resolve">>

Resolved(ps, i, calls) ==
  IF \E k \in DOMAIN calls : calls[k] = "resolve"
    THEN [ps EXCEPT ![i] = "resolved"]
    ELSE ps

\* ws.onopen of socket i.
SockOpen(i) ==
  /\ socks[i] = "connecting"
  /\ socks' = [socks EXCEPT ![i] = "open"]
  /\ isConnected' = TRUE
  /\ promises' = Resolved(promises, i, OnOpenCalls)
  /\ Note("open", NoMessage, FALSE, OnOpenCalls)
  /\ UNCHANGED <<ws, audioVars, playVars, nBlocks, sent, closedLast>>

\* Mutant of RoutesToPlayAudio: a `default:` label shares the audio case.
RoutesUnknownToPlayAudio(kind) == kind \in {"audio", "unknown"}

\* Mutant of RoutesToPlayAudio: case 'log' also hands its data to playAudio.
RoutesLogToPlayAudio(kind) == kind \in {"audio", "log"}

\* `case 'audio':` is the one case of the switch that calls playAudio.
RoutesToPlayAudio(kind) == kind = "audio"

\* ws.onmessage of socket i for the frame m.  The browser delivers message
\* events only while the socket is OPEN.
SockMessage(i, m) ==
  /\ socks[i] = "open"
  /\ IF ParseThrows(m.kind)
       THEN /\ Note("message", m, TRUE, <<>>)
            /\ UNCHANGED playVars
       ELSE IF RoutesToPlayAudio(m.kind)
         THEN /\ nAudio < MaxAudio
              /\ nAudio' = nAudio + 1
              /\ LET r == playAudio(nAudio + 1, m.data, audioQueue, isPlaying,
                                    audioContext)
                 IN  /\ audioQueue' = r.audioQueue
                     /\ isPlaying' = r.isPlaying
                     /\ inflight' = WithStart(inflight, r.start)
                     /\ started' = LogStart(started, r.start)
                     /\ Note("message", m, r.threw, Callbacks(m.kind))
         ELSE /\ Note("message", m, FALSE, Callbacks(m.kind))
              /\ UNCHANGED playVars
  /\ UNCHANGED <<sockVars, audioVars, nBlocks, sent, closedLast>>

\* source.onended of the started source `id`.
SourceEnded(id) ==
  /\ id \in inflight
  /\ LET r == playNextInQueue(audioQueue, audioContext)
     IN  /\ audioQueue' = r.audioQueue
         /\ isPlaying' = r.isPlaying
         /\ inflight' = WithStart(inflight \ {id}, r.start)
         /\ started' = LogStart(started, r.start)
         /\ Note("ended", NoMessage, r.threw, <<>>)
  /\ UNCHANGED <<sockVars, audioVars, nAudio, nBlocks, sent, closedLast>>

\* Mutant of SockFail: the error handler opens a new socket (automatic
\* reconnect), twice at most.
SockFailReconnects(i) ==
  /\ socks[i] \in {"connecting", "open", "closing", "aborting"}
  /\ Len(socks) < MaxConnects + 2
  /\ socks' = Append([socks EXCEPT ![i] = "closed"], "connecting")
  /\ promises' = Append(promises, "pending")
  /\ ws' = Len(socks) + 1
  /\ isConnected' = FALSE
  /\ Note("failEvent", NoMessage, FALSE, <<"onError">>)
  /\ UNCHANGED <<audioVars, playVars, nBlocks, sent, closedLast>>

\* The connection of socket i fails (refused, dropped, or aborted by close()
\* while connecting): the browser fires error and then close.
SockFail(i) ==
  /\ socks[i] \in {"connecting", "open", "closing", "aborting"}
  /\ socks' = [socks EXCEPT ![i] = "closed"]
  /\ isConnected' = FALSE
  /\ Note("failEvent", NoMessage, FALSE, <<"onError">>)
  /\ UNCHANGED <<ws, promises, audioVars, playVars, nBlocks, sent, closedLast>>

\* ws.onclose of socket i after a clean close (remote close, or the end of
\* the closing handshake close() began).
SockClosed(i) ==
  /\ socks[i] \in {"open", "closing"}
  /\ socks' = [socks EXCEPT ![i] = "closed"]
  /\ isConnected' = FALSE
  /\ Note("closeEvent", NoMessage, FALSE, <<>>)
  /\ UNCHANGED <<ws, promises, audioVars, playVars, nBlocks, sent, closedLast>>


\* ---------------------------------------------------------------- capture
\* The guard of startRecording: `if (!this.recorder) await initializeAudio()`.
NeedsInitialize(rec) == rec = 0

\* startRecording(), up to its first suspension.  With no recorder it enters
\* initializeAudio, which creates the AudioContext if there is none, requests
\* the microphone and suspends; with a recorder it sets the flag at once.
StartRecording ==
  /\ IF NeedsInitialize(recorder)
       THEN /\ micRequests < MaxMicRequests
            /\ audioContext' = TRUE
            /\ micRequests' = micRequests + 1
            /\ micPending' = micPending + 1
            /\ UNCHANGED <<recorder, graphs, isRecording>>
       ELSE /\ isRecording' = TRUE
            /\ UNCHANGED <<audioContext, recorder, graphs, micPending,
                           micRequests>>
  /\ closedLast' = IF closedLast = "never" THEN "never" ELSE "reused"
  /\ Note("startRecording", NoMessage, FALSE, <<>>)
  /\ UNCHANGED <<sockVars, playVars, nBlocks, sent>>

\* getUserMedia resolves for one suspended call: initializeAudio builds the
\* graph and stores it in this.recorder, then startRecording resumes and
\* sets isRecording.  Both continuations are microtasks of the same task.
MicGranted ==
  /\ micPending > 0
  /\ micPending' = micPending - 1
  /\ graphs' = Append(graphs, [live |-> TRUE, connected |-> TRUE])
  /\ recorder' = Len(graphs) + 1
  /\ isRecording' = TRUE
  /\ Note("micGranted", NoMessage, FALSE, <<>>)
  /\ UNCHANGED <<audioContext, micRequests, sockVars, playVars, nBlocks, sent,
                 closedLast>>

\* getUserMedia rejects for one suspended call: initializeAudio and then
\* startRecording reject with the device error; no field is written.
MicDenied ==
  /\ micPending > 0
  /\ micPending' = micPending - 1
  /\ Note("micDenied", NoMessage, TRUE, <<>>)
  /\ UNCHANGED <<audioContext, recorder, graphs, micRequests, isRecording,
                 sockVars, playVars, nBlocks, sent, closedLast>>

\* stopRecording().
StopRecording ==
  /\ isRecording' = FALSE
  /\ Note("stopRecording", NoMessage, FALSE, <<>>)
  /\ UNCHANGED <<audioContext, recorder, graphs, micPending, micRequests,
                 sockVars, playVars, nBlocks, sent, closedLast>>

\* Mutant of ProcessorEncodes: the isRecording guard is missing.
ProcessorEncodesAlways(rec) == TRUE

\* The first guard of processor.onaudioprocess: `if (!this.isRecording) return`.
ProcessorEncodes(rec) == rec

\* The second guard: `if (this.isConnected && this.ws)`.
ProcessorSends(conn, sock) == conn /\ sock # 0

\* WebSocket.send on a socket in the given state: it throws while CONNECTING,
\* transmits while OPEN and discards the data once CLOSING or CLOSED.
SendThrows(st) == st = "connecting"
SendTransmits(st) == st = "open"

\* processor.onaudioprocess of graph g for the next captured block.
Capture(g) ==
  /\ g \in 1..Len(graphs)
  /\ graphs[g].connected
  /\ nBlocks < MaxBlocks
  /\ nBlocks' = nBlocks + 1
  /\ IF ProcessorEncodes(isRecording) /\ ProcessorSends(isConnected, ws)
       THEN /\ sent' = IF SendTransmits(socks[ws])
                         THEN Append(sent, [sock |-> ws, block |-> nBlocks + 1])
                         ELSE sent
            /\ Note("capture", NoMessage, SendThrows(socks[ws]), <<>>)
       ELSE /\ sent' = sent
            /\ Note("capture", NoMessage, FALSE, <<>>)
  /\ UNCHANGED <<sockVars, audioVars, playVars, closedLast>>

\* ------------------------------------------------------------------ close
\* Mutant of Teardown: the nodes are disconnected but the tracks of the
\* stream are not stopped.
TeardownKeepsTracks(gs, rec) ==
  IF rec = 0 THEN gs
  ELSE [gs EXCEPT ![rec] = [live |-> @.live, connected |-> FALSE]]

\* What close() does to the graph this.recorder names: every track of the
\* stream is stopped and both nodes are disconnected.
Teardown(gs, rec) ==
  IF rec = 0 THEN gs
  ELSE [gs EXCEPT ![rec] = [live |-> FALSE, connected |-> FALSE]]

\* WebSocket.close() on a socket in the given state.
CloseSocket(st) ==
  CASE st = "connecting" -> "aborting"
    [] st = "open"       -> "closing"
    [] OTHER             -> st

\* close().  Neither this.recorder nor this.ws is cleared.
Close ==
  /\ isRecording' = FALSE
  /\ graphs' = Teardown(graphs, recorder)
  /\ socks' = IF ws = 0 THEN socks ELSE [socks EXCEPT ![ws] = CloseSocket(@)]
  /\ closedLast' = "closed"
  /\ Note("close", NoMessage, FALSE, <<>>)
  /\ UNCHANGED <<ws, promises, isConnected, audioContext, recorder,
                 micPending, micRequests, playVars, nBlocks, sent>>

\* ------------------------------------------------------------------- Next
\* ------------------------------------------------------- codec actions
\* onaudioprocess, lines 348-349: the samples are viewed as bytes and
\* encoded.
Encode ==
  /\ codec.ph = "raw"
  /\ codec' = [codec EXCEPT !.ph = "encoded",
                            !.wire = arrayBufferToBase64(Uint8View(codec.block))]
  /\ UNCHANGED exceptCodec

\* playAudio and playNextInQueue, lines 368 and 384: the string is decoded
\* and the bytes are viewed as samples; atob throws on an invalid string and
\* new Int16Array on an odd number of bytes.
Decode ==
  /\ codec.ph = "encoded"
  /\ IF AtobThrows(codec.wire)
       THEN codec' = [codec EXCEPT !.ph = "decoded", !.threw = TRUE]
       ELSE LET audioData == base64ToArrayBuffer(codec.wire)
            IN IF Len(audioData) % 2 # 0
                 THEN codec' = [codec EXCEPT !.ph = "decoded", !.threw = TRUE]
                 ELSE codec' = [codec EXCEPT !.ph = "decoded",
                                             !.out = Int16View(audioData)]
  /\ UNCHANGED exceptCodec

\* ----------------------------------------------------- useWebSocket actions
\* The component mounts with the url u: the effect runs.
HookMount(u) ==
  /\ hook.phase = "initial"
  /\ hook' = RunEffect([hook EXCEPT !.phase = "mounted"], u)
  /\ UNCHANGED exceptHook

\* The component re-renders with another url: the cleanup of the last effect
\* run, then the effect for the new url.
HookUrlChange(u) ==
  /\ hook.phase = "mounted"
  /\ u # hook.url
  /\ Len(hook.sockets) < MaxHookSockets
  /\ LET open == /\ hook.cleanup # 0
                 /\ hook.sockets[hook.cleanup].state = "open"
     IN hook' = [RunEffect(RunCleanup(hook), u)
                   EXCEPT !.changedWhileOpen = open]
  /\ UNCHANGED exceptHook

\* The component unmounts: the cleanup of the last effect run.
HookUnmount ==
  /\ hook.phase = "mounted"
  /\ hook' = [RunCleanup(hook) EXCEPT !.phase = "unmounted"]
  /\ UNCHANGED exceptHook

\* ws.onopen of socket i (lines 27-31).
HookSockOpen(i) ==
  /\ hook.sockets[i].state = "connecting"
  /\ hook' = setLogs(setIsConnected(
                [hook EXCEPT !.sockets[i].state = "open"], TRUE),
                "WebSocket connection established")
  /\ UNCHANGED exceptHook

\* ws.onmessage of socket i (lines 33-44) for a Blob, a `log` frame or
\* another JSON frame.
HookSockMessage(i, f) ==
  /\ hook.sockets[i].state = "open"
  /\ hook.nFrames < MaxHookMessages
  /\ LET h == [hook EXCEPT !.nFrames = @ + 1]
     IN hook' = IF f = "log" THEN setLogs(h, "log") ELSE setMessages(h, f)
  /\ UNCHANGED exceptHook

\* The connection of socket i fails (also after ws.close() on a connecting
\* socket): ws.onerror (lines 46-49), then ws.onclose.
HookSockFail(i) ==
  /\ hook.sockets[i].state \in {"connecting", "aborting", "open"}
  /\ hook' = onclose(setLogs([hook EXCEPT !.sockets[i].state = "closed"],
                             "WebSocket error"), i)
  /\ UNCHANGED exceptHook

\* The close event of socket i, after ws.close() or a close by the server.
HookSockClosed(i) ==
  /\ hook.sockets[i].state \in {"open", "closing"}
  /\ hook' = onclose([hook EXCEPT !.sockets[i].state = "closed"], i)
  /\ UNCHANGED exceptHook

\* sendMessage(message) (lines 69-76), called by the mounted component.
HookSend ==
  /\ hook.phase = "mounted"
  /\ hook.nSends < MaxHookSends
  /\ LET ref == hook.webSocketRef
         h == [hook EXCEPT !.nSends = @ + 1]
     IN hook' = IF ref # 0 /\ h.sockets[ref].state = "open"
                  THEN [h EXCEPT !.sent = Append(@, ref)]
                  ELSE setLogs(h, "WebSocket is not connected")
  /\ UNCHANGED exceptHook

\* ------------------------------------------------------ SearchPage actions
\* handleSendMessage with the input q (part_004 lines 36-85): nothing for a
\* blank input; else the user message is added and a new EventSource is
\* opened for the query.  An EventSource opened earlier is left as it is.
SearchSubmit(q) ==
  /\ q # ""
  /\ Len(search.streams) < MaxQueries
  /\ search' = [search EXCEPT
                  !.messages = Append(@, "user"),
                  !.isSearching = TRUE,
                  !.streams = Append(@, [query |-> q, state |-> "open",
                                         events |-> 0, gave |-> FALSE])]
  /\ UNCHANGED exceptSearch

\* An event of stream i is delivered to its onmessage handler.
SearchEvent(i, type) ==
  /\ search.streams[i].state = "open"
  /\ search.streams[i].events < MaxStreamEvents
  /\ search' = [SearchOnMessage(search, i, type) EXCEPT
                  !.streams[i].events = @ + 1,
                  !.streams[i].gave = @ \/ CarriesProducts(type)]
  /\ UNCHANGED exceptSearch

\* The stream of EventSource i ends or fails: eventSource.onerror (part_004
\* lines 76-80) closes it.
SearchStreamEnds(i) ==
  /\ search.streams[i].state = "open"
  /\ search' = [search EXCEPT !.isSearching = FALSE,
                              !.streams[i].state = "closed"]
  /\ UNCHANGED exceptSearch

Next ==
  \/ Connect
  \/ Encode
  \/ Decode
  \/ \E u \in Urls : HookMount(u)
  \/ \E u \in Urls : HookUrlChange(u)
  \/ HookUnmount
  \/ \E i \in 1..Len(hook.sockets) : HookSockOpen(i)
  \/ \E i \in 1..Len(hook.sockets) : \E f \in HookFrames : HookSockMessage(i, f)
  \/ \E i \in 1..Len(hook.sockets) : HookSockFail(i)
  \/ \E i \in 1..Len(hook.sockets) : HookSockClosed(i)
  \/ HookSend
  \/ \E q \in Queries \cup {""} : SearchSubmit(q)
  \/ \E i \in 1..Len(search.streams) : \E t \in SearchEvents : SearchEvent(i, t)
  \/ \E i \in 1..Len(search.streams) : SearchStreamEnds(i)
  \/ Mount
  \/ Render
  \/ \E i \in 1..Len(socks) : SockOpen(i)
  \/ \E i \in 1..Len(socks) :
       \E m \in Messages \cup ChatMessages : SockMessage(i, m)
  \/ \E i \in 1..Len(socks) : SockFail(i)
  \/ \E i \in 1..Len(socks) : SockClosed(i)
  \/ \E id \in inflight : SourceEnded(id)
  \/ StartRecording
  \/ MicGranted
  \/ MicDenied
  \/ StopRecording
  \/ \E g \in 1..Len(graphs) : Capture(g)
  \/ Close

Spec == Init /\ [][Next]_vars

\* ------------------------------------------------------------ projections
\* The three directions of the client share only the socket fields, the
\* AudioContext and isRecording.  Playback (audioQueue, isPlaying, the
\* sources) is written only by ws.onmessage and source.onended; the outbound
\* log (nBlocks, sent) only by onaudioprocess.  Each specification below is
\* Spec with the environment restricted to the events one direction reads,
\* so that the claims about that direction are checked over all of its
\* interleavings.

AudioMessages == {m \in Messages : m.kind = "audio"}

\* Playback: audio frames only, and a microphone prompt that is never
\* answered (startRecording still creates the AudioContext).
NextPlayback ==
  \/ Connect
  \/ \E i \in 1..Len(socks) : SockOpen(i)
  \/ \E i \in 1..Len(socks) : \E m \in AudioMessages : SockMessage(i, m)
  \/ \E i \in 1..Len(socks) : SockFail(i)
  \/ \E i \in 1..Len(socks) : SockClosed(i)
  \/ \E id \in inflight : SourceEnded(id)
  \/ StartRecording
  \/ Close

SpecPlayback == Init /\ [][NextPlayback]_vars

\* Capture and lifecycle: no inbound frames.
NextCapture ==
  \/ Connect
  \/ \E i \in 1..Len(socks) : SockOpen(i)
  \/ \E i \in 1..Len(socks) : SockFail(i)
  \/ \E i \in 1..Len(socks) : SockClosed(i)
  \/ StartRecording
  \/ MicGranted
  \/ MicDenied
  \/ StopRecording
  \/ \E g \in 1..Len(graphs) : Capture(g)
  \/ Close

SpecCapture == Init /\ [][NextCapture]_vars

\* Inbound dispatch: frames of every kind, with playback, over a session the
\* caller has not closed.
NextDispatch ==
  \/ Connect
  \/ \E i \in 1..Len(socks) : SockOpen(i)
  \/ \E i \in 1..Len(socks) : \E m \in Messages : SockMessage(i, m)
  \/ \E i \in 1..Len(socks) : SockFail(i)
  \/ \E i \in 1..Len(socks) : SockClosed(i)
  \/ \E id \in inflight : SourceEnded(id)
  \/ StartRecording

SpecDispatch == Init /\ [][NextDispatch]_vars

LogMessage == [kind |-> "log", data |-> NoPayload, text |-> "", list |-> <<>>]

ProductsMessage ==
  [kind |-> "products", data |-> NoPayload, text |-> "", list |-> <<>>]

\* Diagnostics: `log` frames arriving while the session records and plays.
NextLog ==
  \/ Connect
  \/ \E i \in 1..Len(socks) : SockOpen(i)
  \/ \E i \in 1..Len(socks) :
       \E m \in AudioMessages \cup {LogMessage} : SockMessage(i, m)
  \/ \E i \in 1..Len(socks) : SockClosed(i)
  \/ \E id \in inflight : SourceEnded(id)
  \/ StartRecording
  \/ MicGranted

SpecLog == Init /\ [][NextLog]_vars

\* The page: LiveChat mounted, the frames its callbacks act on, and React's
\* renders at any point between them.
NextLiveChat ==
  \/ Mount
  \/ \E i \in 1..Len(socks) : SockOpen(i)
  \/ \E i \in 1..Len(socks) : \E m \in ChatMessages : SockMessage(i, m)
  \/ \E i \in 1..Len(socks) : SockClosed(i)
  \/ Render

SpecLiveChat == Init /\ [][NextLiveChat]_vars

\* The framing alone: a block of samples is encoded and decoded again.
InitCodec ==
  /\ Constructed
  /\ \E b \in Blocks : codec = [CodecIdle EXCEPT !.ph = "raw", !.block = b]
  /\ hook = HookInit
  /\ search = SearchInit

NextCodec ==
  \/ Encode
  \/ Decode

SpecCodec == InitCodec /\ [][NextCodec]_vars

\* Playback over a session that is never closed, in which every started
\* source fires its ended event.
NextQueue ==
  \/ Connect
  \/ \E i \in 1..Len(socks) : SockOpen(i)
  \/ \E i \in 1..Len(socks) : \E m \in AudioMessages : SockMessage(i, m)
  \/ \E id \in inflight : SourceEnded(id)
  \/ StartRecording

SpecQueueFair ==
  /\ Init
  /\ [][NextQueue]_vars
  /\ \A id \in 1..MaxAudio : WF_vars(SourceEnded(id))

\* The hook alone: one component that mounts, changes its url, sends and
\* unmounts, with the events of its sockets.
NextHook ==
  \/ \E u \in Urls : HookMount(u)
  \/ \E u \in Urls : HookUrlChange(u)
  \/ HookUnmount
  \/ \E i \in 1..Len(hook.sockets) : HookSockOpen(i)
  \/ \E i \in 1..Len(hook.sockets) : \E f \in HookFrames : HookSockMessage(i, f)
  \/ \E i \in 1..Len(hook.sockets) : HookSockFail(i)
  \/ \E i \in 1..Len(hook.sockets) : HookSockClosed(i)
  \/ HookSend

SpecHook == Init /\ [][NextHook]_vars

\* The browser settles every connection attempt and fires the close event of
\* every socket that ws.close() was called on; a server may keep an open
\* socket open for ever.
HookSettles(i) ==
  /\ i \in 1..Len(hook.sockets)
  /\ hook.sockets[i].state \in {"connecting", "aborting", "closing"}
  /\ \/ HookSockOpen(i)
     \/ HookSockFail(i)
     \/ HookSockClosed(i)

SpecHookFair ==
  /\ Init
  /\ [][NextHook]_vars
  /\ \A i \in 1..MaxHookSockets : WF_vars(HookSettles(i))

\* The search page alone: queries submitted in succession and the events of
\* their streams in any interleaving.
NextSearch ==
  \/ \E q \in Queries \cup {""} : SearchSubmit(q)
  \/ \E i \in 1..Len(search.streams) : \E t \in SearchEvents : SearchEvent(i, t)
  \/ \E i \in 1..Len(search.streams) : SearchStreamEnds(i)

SpecSearch == Init /\ [][NextSearch]_vars

\* ================================================================= claims
IsAudioStep(l) == l.op = "message" /\ l.msg.kind = "audio"

\* The frame decodes to a playable buffer: valid base64, a whole, non-zero
\* number of int16 samples.
Playable(data) == data.b64ok /\ ~DecodeThrows(data.len)

Invoked(l, cb) == \E k \in DOMAIN l.cbs : l.cbs[k] = cb

\* C1: buffers start playing in the order their `audio` messages were
\* received: the ids in `started` (ids are receipt numbers) strictly increase.
C1_PlaybackIsFifo ==
  \A i, j \in 1..Len(started) : i < j => started[i] < started[j]

\* Three buffers were received and all three have started, the last two out
\* of the queue after a playback-ended event.
C1_Witness ==
  /\ Len(started) = 3
  /\ last.op = "ended"

\* C2: at most one started source is in flight, and an audio message handled
\* while isPlaying is true starts no source and does nothing but append its
\* buffer (nothing at all when atob rejects the payload).
C2_OneSourceAtATime ==
  /\ [](Cardinality(inflight) <= 1)
  /\ [][(IsAudioStep(last') /\ isPlaying) =>
          /\ inflight' = inflight
          /\ started' = started
          /\ isPlaying'
          /\ audioQueue' = IF last'.msg.data.b64ok
                             THEN Append(audioQueue,
                                         [id |-> nAudio',
                                          len |-> last'.msg.data.len])
                             ELSE audioQueue]_vars

\* An audio message arrived while a source was in flight and was queued
\* behind it.
C2_Witness ==
  /\ IsAudioStep(last)
  /\ Cardinality(inflight) = 1
  /\ isPlaying
  /\ Len(audioQueue) >= 1
  /\ \A k \in 1..Len(audioQueue) : audioQueue[k].id \notin inflight

\* C3 (as claimed): a playable audio message received over an open
\* connection while nothing is playing starts playing in the same dispatch
\* step, whether or not startRecording was ever called.
C3_StartsImmediately ==
  [][(IsAudioStep(last') /\ Playable(last'.msg.data) /\ ~isPlaying /\ isConnected)
       => nAudio' \in inflight']_vars

\* C4: an outbound message is only ever produced by an onaudioprocess
\* callback that ran with isRecording true, and it carries the block of that
\* very callback: a block captured while not recording is dropped for good.
C4_NothingSentWhileNotRecording ==
  [][/\ (last'.op = "capture" /\ ~isRecording) => sent' = sent
     /\ sent' # sent =>
          /\ last'.op = "capture"
          /\ isRecording
          /\ sent' = Append(sent, [sock |-> ws, block |-> nBlocks'])]_vars

\* Connected, recording stopped after a block had been sent: a later block
\* is captured and not sent.
C4_Witness ==
  /\ last.op = "capture"
  /\ ~isRecording
  /\ isConnected /\ ws # 0 /\ socks[ws] = "open"
  /\ Len(sent) >= 1
  /\ nBlocks > sent[Len(sent)].block

\* Every capture graph built so far has its tracks stopped and its nodes
\* disconnected.
AllGraphsReleased ==
  \A g \in 1..Len(graphs) : ~graphs[g].live /\ ~graphs[g].connected

\* No call is suspended and no socket is between two states.
Quiescent ==
  /\ micPending = 0
  /\ \A i \in 1..Len(socks) : socks[i] \notin {"connecting", "closing", "aborting"}

NotOpenable(i) == i # 0 => socks[i] \notin {"connecting", "open"}

\* C5 (as claimed): as long as close() has not been called, the microphone
\* has been requested at most once and at most one capture graph has been
\* built, whatever the interleaving of startRecording / stopRecording calls
\* with the microphone's answer.
C5_MicrophoneRequestedOnce ==
  closedLast = "never" => micRequests <= 1 /\ Len(graphs) <= 1

\* C6 (as claimed): once close() has been called (and neither connect nor
\* startRecording called again) and every pending asynchronous step has
\* completed, the connection is closed, every capture graph is torn down and
\* no microphone track is live.
C6_ReleasedAfterClose ==
  (closedLast = "closed" /\ Quiescent) =>
    /\ ws # 0 => socks[ws] = "closed"
    /\ AllGraphsReleased

\* C7 (as claimed): close(), in whatever state it is called (a second time,
\* before connect() resolved, before connect() was called), does not raise
\* and leaves every held resource released: no live track, no connected
\* capture node, no socket still open or connecting.
C7_CloseReleasesEverything ==
  last.op = "close" =>
    /\ ~last.threw
    /\ AllGraphsReleased
    /\ NotOpenable(ws)

\* C8: along connect, startRecording, n blocks, stopRecording, close (each
\* awaited), exactly the n blocks captured while recording are sent, one
\* message per block in capture order on the one socket; after close() the
\* device is released and the one socket is closing, and closed once its
\* close event has fired.
C8_ScenarioSendsEveryBlock ==
  /\ scn.ph \in {"recording", "stopped", "closing", "done"} =>
       /\ Len(sent) = scn.n
       /\ \A k \in 1..Len(sent) : sent[k] = [sock |-> 1, block |-> k]
  /\ scn.ph \in {"closing", "done"} =>
       /\ AllGraphsReleased
       /\ ~isRecording
       /\ Len(socks) = 1
       /\ socks[1] \in {"closing", "closed"}
  /\ scn.ph = "done" => socks = <<"closed">>

\* The scenario ran to its end with five blocks captured while recording.
C8_Witness ==
  /\ scn.ph = "done"
  /\ scn.n = 5
  /\ Len(sent) = 5

\* C9 (as claimed): a block captured while recording but with no open
\* connection makes the client invoke onError, and sends nothing.
C9_ErrorWhenDisconnected ==
  [][(/\ last'.op = "capture"
      /\ isRecording
      /\ ~(isConnected /\ ws # 0 /\ socks[ws] = "open"))
       => Invoked(last', "onError") /\ sent' = sent]_vars

\* C10: handling a malformed frame (unparseable, or of unknown type) leaves
\* the session where it was: the flags, the queue, the sources and the
\* socket are unchanged and no callback is invoked; and a well-formed frame
\* dispatched right after a malformed one still reaches its callback.
C10_MalformedFrameIsSkipped ==
  [][/\ (last'.op = "message" /\ last'.msg.kind \in MalformedKinds) =>
          /\ UNCHANGED <<isConnected, isRecording, isPlaying, audioQueue,
                         inflight, ws, socks>>
          /\ last'.cbs = <<>>
     /\ (/\ last.op = "message" /\ last.msg.kind \in MalformedKinds
         /\ last'.op = "message" /\ last'.msg.kind \in KnownKinds) =>
          Len(last'.cbs) = 1]_vars

\* A malformed frame was handled in the middle of playback, with a buffer
\* queued behind the source in flight.
C10_Witness ==
  /\ last.op = "message"
  /\ last.msg.kind \in MalformedKinds
  /\ isPlaying
  /\ inflight # {}
  /\ Len(audioQueue) >= 1

\* C11: a well-formed frame invokes exactly one callback, exactly once, the
\* one of its kind: the calls of the dispatch step are that one callback.
C11_OneCallbackPerKind ==
  LET expected == [audio            |-> "onAudioReceived",
                   text             |-> "onTextReceived:bot",
                   user_text        |-> "onTextReceived:user",
                   products         |-> "onProductsReceived",
                   log              |-> "onLogReceived",
                   turn_complete    |-> "onTurnComplete",
                   bot_speech_start |-> "onBotSpeechStart",
                   bot_speech_end   |-> "onBotSpeechEnd"]
  IN  (last.op = "message" /\ last.msg.kind \in KnownKinds) =>
        last.cbs = <<expected[last.msg.kind]>>

\* A user_text frame was dispatched, to onTextReceived(data, true) alone.
C11_Witness ==
  /\ last.op = "message"
  /\ last.msg.kind = "user_text"
  /\ last.cbs = <<"onTextReceived:user">>

\* C13: a `products` frame can be dispatched whenever its socket is open,
\* whatever isPlaying and audioQueue are, and its dispatch step calls
\* onProductsReceived and leaves playback as it was.
C13_ProductsNotBlockedByPlayback ==
  /\ \A i \in 1..Len(socks) :
       socks[i] = "open" => ENABLED SockMessage(i, ProductsMessage)
  /\ (last.op = "message" /\ last.msg.kind = "products") =>
       last.cbs = <<"onProductsReceived">> /\ ~last.threw

\* A products frame was delivered while a source was playing and another
\* buffer was waiting in the queue.
C13_Witness ==
  /\ last.op = "message"
  /\ last.msg.kind = "products"
  /\ Invoked(last, "onProductsReceived")
  /\ isPlaying
  /\ inflight # {}
  /\ Len(audioQueue) >= 1

\* C14: the dispatch of a `log` frame calls onLogReceived and changes no
\* field of the session: flags, queue, sources, capture graph and socket are
\* what they were.
C14_LogLeavesSessionAlone ==
  [][(last'.op = "message" /\ last'.msg.kind = "log") =>
       /\ UNCHANGED <<isConnected, isRecording, isPlaying, audioQueue, inflight,
                      audioContext, recorder, graphs, micPending, ws, socks,
                      promises>>
       /\ last'.cbs = <<"onLogReceived">>]_vars

\* A log frame was dispatched while the session was recording and playing,
\* with a buffer queued.
C14_Witness ==
  /\ last.op = "message"
  /\ last.msg.kind = "log"
  /\ isRecording
  /\ recorder # 0
  /\ isPlaying
  /\ Len(audioQueue) >= 1

\* C16: when a socket opens, isConnected becomes true, onReady is called
\* exactly once and before the promise of that connect() is resolved;
\* onReady is called in no other step and no socket opens twice.
C16_ReadyOnceBeforeResolve ==
  [][/\ last'.op = "open" =>
          /\ isConnected'
          /\ last'.cbs = <<"onReady", "resolve">>
          /\ \E i \in 1..Len(socks) :
               /\ socks[i] = "connecting" /\ socks'[i] = "open"
               /\ promises[i] = "pending" /\ promises'[i] = "resolved"
     /\ Invoked(last', "onReady") => last'.op = "open"
     /\ \A i \in 1..Len(socks) :
          (socks'[i] = "open" /\ socks[i] # "open") =>
             (socks[i] = "connecting" /\ last'.op = "open")]_vars

\* The socket has just opened: connected, promise resolved.
C16_Witness ==
  /\ last.op = "open"
  /\ isConnected
  /\ ws # 0 /\ socks[ws] = "open" /\ promises[ws] = "resolved"

\* C17 (as claimed): when the remote side closes an open connection the
\* client is no longer connected, signals the close to its caller through a
\* callback, and opens no new socket.
C17_RemoteCloseIsSignalled ==
  [][(last'.op = "closeEvent" /\ \E i \in 1..Len(socks) :
                                   socks[i] = "open" /\ socks'[i] = "closed") =>
       /\ ~isConnected'
       /\ Len(socks') = Len(socks)
       /\ last'.cbs # <<>>]_vars

\* C18: a failed or broken connection calls onError and creates no socket:
\* sockets are created by connect() calls only, one per call.
C18_NoAutomaticRetry ==
  [][/\ last'.op = "failEvent" => Invoked(last', "onError")
     /\ Len(socks') = Len(socks) + (IF last'.op = "connect" THEN 1 ELSE 0)]_vars

\* The one connection attempt failed and no other socket exists.
C18_Witness ==
  /\ last.op = "failEvent"
  /\ Invoked(last, "onError")
  /\ socks = <<"closed">>
  /\ promises = <<"pending">>

\* C19 (as claimed): when the microphone is refused the failure reaches the
\* caller through onError, the pending startRecording call does not reject,
\* and isRecording is not set by it.
C19_DeviceErrorIsReported ==
  [][last'.op = "micDenied" =>
       /\ Invoked(last', "onError")
       /\ ~last'.threw
       /\ isRecording' = isRecording]_vars

\* C20 (as claimed): once close() has been called (and the client not used
\* again) no further buffer starts playing.
C20_CloseAbandonsPlayback ==
  [][closedLast = "closed" => started' = started]_vars

\* ------------------------------------------------------------------- C12
\* The `products` frames handed to the page so far, in order.
ProductFrames == SelectSeq(heard, LAMBDA m : m.kind = "products")

ProductsRendered == \A k \in DOMAIN pending : pending[k].set # "products"

\* C12: on the live-chat page, once the queued updates are rendered, the
\* displayed product list is exactly the payload of the last `products`
\* frame received, whatever lists came before it (replacement, no merge).
C12_ProductsAreReplaced ==
  (ProductFrames # <<>> /\ ProductsRendered)
    => products = ProductFrames[Len(ProductFrames)].list

\* Two `products` frames, ["A"] then ["B","C"], both rendered.
C12_Witness ==
  /\ Len(ProductFrames) = 2
  /\ ProductFrames[1].list = <<"A">>
  /\ ProductFrames[2].list = <<"B", "C">>
  /\ last.op = "render"
  /\ products = <<"B", "C">>

\* ------------------------------------------------------------------- C15
ChatFrame(kind, text) ==
  [kind |-> kind, data |-> NoPayload, text |-> text, list |-> <<>>]

\* bot_speech_start, text "Hello ", text "world", bot_speech_end.
SpeechScenario ==
  <<ChatFrame("bot_speech_start", ""), ChatFrame("text", "Hello "),
    ChatFrame("text", "world"), ChatFrame("bot_speech_end", "")>>

\* C15: when the page has received exactly bot_speech_start, text "Hello ",
\* text "world", bot_speech_end, in that order, and every queued update is
\* rendered, the message list is one bot message "Hello world", at whatever
\* points between the frames the renders happened.
C15_SpeechIsOneMessage ==
  (heard = SpeechScenario /\ pending = <<>>)
    => messages = <<[text |-> "Hello world", sender |-> "bot"]>>

\* ------------------------------------------------------------------- C21
\* C21: for every block of int16 samples, decoding its encoding gives a
\* buffer whose samples are the block: same length, values and order, and
\* neither step raises.
C21_RoundTripIsLossless ==
  codec.ph = "decoded" => (~codec.threw /\ codec.out = codec.block)

\* A block of three samples (six bytes, no padding) with a negative one.
C21_Witness ==
  /\ codec.ph = "decoded"
  /\ codec.block = <<-32768, 4660, -1>>
  /\ codec.out = codec.block
  /\ Len(codec.wire) = 8

\* ------------------------------------------------------------------- C22
Queued(id) == \E k \in DOMAIN audioQueue : audioQueue[k].id = id

HasStarted(id) == \E k \in DOMAIN started : started[k] = id

\* C22: in a session that is not closed and whose sources all end, every
\* buffer appended to audioQueue is eventually started.
C22_QueuedIsEventuallyPlayed ==
  \A id \in 1..MaxAudio : Queued(id) ~> HasStarted(id)

\* ------------------------------------------------------------------- C25
\* C25: isPlaying is true only while a started source is in flight (whose
\* ended event will run playNextInQueue again).
C25_PlayingMeansInFlight == isPlaying => inflight # {}

\* ------------------------------------------------------------------- C23
\* What a handler leaves for an operator: an exception that escapes it (the
\* browser reports it), the error callback or the log callback.  ws.onmessage
\* itself writes nothing to the console.
Diagnosed(l) ==
  l.threw \/ Invoked(l, "onError") \/ Invoked(l, "onLogReceived")

DataCallbacks == {"onAudioReceived", "onTextReceived:bot",
                  "onTextReceived:user", "onProductsReceived",
                  "onTurnComplete", "onBotSpeechStart", "onBotSpeechEnd"}

\* C23: a frame that cannot be parsed or whose type is unknown produces a
\* diagnostic signal and invokes no data callback.
C23_MalformedIsDiagnosed ==
  (last.op = "message" /\ last.msg.kind \in MalformedKinds)
    => /\ Diagnosed(last)
       /\ \A k \in DOMAIN last.cbs : last.cbs[k] \notin DataCallbacks

\* ------------------------------------------------------------------- C24
\* C24: when stopRecording was the handler that ran last (so it is the most
\* recent recording call) and the microphone then answers the last pending
\* startRecording, isRecording is false once that call has completed.
C24_StopRecordingWins ==
  [][(/\ last.op = "stopRecording"
      /\ last'.op \in {"micGranted", "micDenied"}
      /\ micPending' = 0)
       => ~isRecording']_vars

\* ------------------------------------------------------------------- C26
\* C26: once the connection attempt of a connect() call has ended, its
\* promise is settled: resolved when the socket opened, and no longer
\* pending when the socket closed without ever opening.
C26_ConnectPromiseSettles ==
  \A i \in 1..Len(socks) :
    /\ socks[i] = "open" => promises[i] = "resolved"
    /\ socks[i] = "closed" => promises[i] # "pending"

\* ------------------------------------------------------------------- C27
RECURSIVE Joined(_)
Joined(texts) ==
  IF texts = <<>> THEN "" ELSE Head(texts) \o Joined(Tail(texts))

TextsOf(seq) == [k \in 1..Len(seq) |-> seq[k].text]

\* The texts of the rendered messages of one sender, joined in list order.
Shown(sender) ==
  Joined(TextsOf(SelectSeq(messages, LAMBDA b : b.sender = sender)))

\* The payloads of the received frames of one kind, joined in receipt order.
Received(kind) ==
  Joined(TextsOf(SelectSeq(heard, LAMBDA m : m.kind = kind)))

\* C27: once the queued updates are rendered, the bot messages joined in
\* list order are the `text` payloads joined in receipt order, and the user
\* messages are the `user_text` payloads joined in receipt order.
C27_NoTextLostOrReordered ==
  pending = <<>> =>
    /\ Shown("bot") = Received("text")
    /\ Shown("user") = Received("user_text")

\* Bot and user fragments interleaved, two of them accumulated into one
\* bubble.
C27_Witness ==
  /\ pending = <<>>
  /\ last.op = "render"
  /\ Len(heard) = 4
  /\ Shown("bot") = "Hello world"
  /\ Shown("user") = "world"
  /\ Len(messages) = 2

\* ------------------------------------------------------------------- C28
\* The socket the effect created for the current url.
NewestSocket == Len(hook.sockets)

\* C28: in the hook, after the url changed while a socket was open, whenever
\* the socket created for the new url is open the ref holds it (so that
\* sendMessage transmits on it) and isConnected is true.
C28_NewSocketKeepsRefAndStatus ==
  (/\ hook.phase = "mounted"
   /\ hook.changedWhileOpen
   /\ hook.sockets[NewestSocket].state = "open")
    => /\ hook.webSocketRef = NewestSocket
       /\ hook.isConnected

\* ------------------------------------------------------------------- C29
\* C29: in the hook, after the component unmounted every socket it created
\* is eventually closed.
C29_UnmountClosesTheSocket ==
  (hook.phase = "unmounted")
    ~> (\A i \in 1..Len(hook.sockets) : hook.sockets[i].state = "closed")

\* ------------------------------------------------------------------- C30
AllStreamsFinished ==
  /\ search.streams # <<>>
  /\ \A i \in 1..Len(search.streams) : search.streams[i].state = "closed"

LatestQuery == search.streams[Len(search.streams)]

\* C30: on the search page, once every stream has finished and the stream of
\* the most recently submitted query delivered products, the displayed
\* products are the result of that query.
C30_LatestQueryWins ==
  (AllStreamsFinished /\ LatestQuery.gave)
    => search.products = ProductsFor(LatestQuery.query)

====
